---- MODULE Spec2Model ----
(***************************************************************************)
(* Multi-PR Manager: the bucket store / file registry of                   *)
(* MultiPRTreeProvider, its dependency resolver, and the processAll        *)
(* command of extension.ts driving GitManager.                             *)
(*                                                                         *)
(* Buckets are JavaScript objects shared by reference between the store    *)
(* (this.buckets) and the snapshot a processAll run takes, so they live in *)
(* a heap indexed by object identity.                                      *)
(***************************************************************************)
EXTENDS Integers, Sequences, FiniteSets, TLC

\* ---------------------------------------------------------------- bounds
NumNames == 3
NumPaths == 2
MaxObjs == 3
NumTicks == 1
\* bucket names and buckets of the store while processAll is modelled
NumRunNames == 2
MaxRunBuckets == 2
\* processAll invocations in a behaviour, and commands run while one of them
\* awaits an answer
MaxRuns == 1
MaxEdits == 1
\* files of the bucket GitManager is handed
MaxFiles == 2

AllNames == <<"a", "B", "b!", "c d", "e">>
AllPaths == <<"f1", "f2", "f3", "f4">>

Names == {AllNames[i] : i \in 1..NumNames}
RunNames == {AllNames[i] : i \in 1..NumRunNames}
Paths == {AllPaths[i] : i \in 1..NumPaths}
Objs == 1..MaxObjs
Ticks == 0..(NumTicks - 1)

\* ------------------------------------------------------------ data model
NoDep == ""
Unset == -1
\* a branch name: the configured default base, the branch the user works on,
\* or `feature/${sanitized}-${timestamp}`; NoBranch is an undefined branchName
NoBranch == [kind |-> "none", san |-> <<>>, ts |-> Unset]
defaultBaseBranch == [kind |-> "default", san |-> <<>>, ts |-> Unset]
startBranch == [kind |-> "work", san |-> <<>>, ts |-> Unset]
FeatureBranch(sanitized, timestamp) ==
    [kind |-> "feature", san |-> sanitized, ts |-> timestamp]

\* a PRBucket as createBucket builds it (title and description carry no logic)
NewBucket(name) ==
    [name |-> name, files |-> <<>>, branchName |-> NoBranch,
     dependsOn |-> NoDep, order |-> Unset]

\* the value kept for a heap cell no reference points to
FreeCell == NewBucket("")

VARIABLES
    heap,        \* object identity -> PRBucket
    buckets,     \* MultiPRTreeProvider.buckets: sequence of object identities
    gitChanges,  \* MultiPRTreeProvider.gitChanges: sequence of paths
    repoType,    \* GitManager.repoType
    head,        \* the branch checked out in the working copy
    pc,          \* position of the processAll command
    run,         \* locals of the processAll command
    runs,        \* processAll invocations so far
    edits,       \* commands run since the latest processAll invocation
    last,        \* the latest call on the bucket store
    git          \* GitManager at work on one bucket: its arguments, the index
                 \* of the working copy and the git commands it ran

vars == <<heap, buckets, gitChanges, repoType, head, pc, run, runs, edits, last, git>>
storeVars == <<heap, buckets, gitChanges>>

\* ------------------------------------------------------ sequence helpers
Range(s) == {s[i] : i \in DOMAIN s}

\* Array.prototype.findIndex, 1-based, 0 when absent
FindIndex(s, x) ==
    IF \E i \in DOMAIN s : s[i] = x
    THEN CHOOSE i \in DOMAIN s : s[i] = x /\ \A j \in 1..(i - 1) : s[j] # x
    ELSE 0

\* Array.prototype.splice(index, 1)
Splice(s, i) == [k \in 1..(Len(s) - 1) |-> IF k < i THEN s[k] ELSE s[k + 1]]

\* remove the first occurrence of x, if any
RemoveFirst(s, x) == IF FindIndex(s, x) = 0 THEN s ELSE Splice(s, FindIndex(s, x))

Count(s, x) == Cardinality({i \in DOMAIN s : s[i] = x})

PathIndex(p) == CHOOSE i \in DOMAIN AllPaths : AllPaths[i] = p

\* the lines of `git status --porcelain` for a set of changed paths, in
\* the path order git prints them
RECURSIVE StatusLines(_)
StatusLines(S) ==
    IF S = {} THEN <<>>
    ELSE LET p == CHOOSE q \in S : \A r \in S : PathIndex(q) <= PathIndex(r)
         IN <<p>> \o StatusLines(S \ {p})

\* ----------------------------------------------------------- the store
BucketSeq == [i \in DOMAIN buckets |-> heap[buckets[i]]]

StoreNames == {heap[buckets[i]].name : i \in DOMAIN buckets}

isFileInBucket(h, bs, filePath) ==
    \E i \in DOMAIN bs : filePath \in Range(h[bs[i]].files)

\* a load that keeps the paths the buckets hold
LoadedChangesUnfiltered(h, bs, reported) == StatusLines(reported)

\* loadGitChanges: the reported paths that no bucket holds
LoadedChanges(h, bs, reported) ==
    SelectSeq(StatusLines(reported), LAMBDA p : ~isFileInBucket(h, bs, p))

\* objects referenced by the store or by a running processAll
Live == Range(buckets) \cup Range(run.buckets)

\* reclaim heap cells nothing refers to any more
Collect(h, live) == [o \in Objs |-> IF o \in live THEN h[o] ELSE FreeCell]

\* ------------------------------------------------- dependency resolver
\* this.buckets.find(b => b.name === bucketName): index of the first, or 0
FindBucket(bs, bucketName) ==
    IF \E i \in DOMAIN bs : bs[i].name = bucketName
    THEN CHOOSE i \in DOMAIN bs :
            bs[i].name = bucketName /\ \A j \in 1..(i - 1) : bs[j].name # bucketName
    ELSE 0

EmptyMarks == [ok |-> TRUE, visited |-> {}, visiting |-> {}, order |-> <<>>]

\* the closure `visit` of updateBucketOrder; st carries the three locals
\* visited / visiting / order and the boolean it returns
RECURSIVE visit(_, _, _)
visit(bs, bucketName, st) ==
    IF bucketName \in st.visiting THEN [st EXCEPT !.ok = FALSE]
    ELSE IF bucketName \in st.visited THEN [st EXCEPT !.ok = TRUE]
    ELSE LET st1 == [st EXCEPT !.visiting = @ \cup {bucketName}]
             b   == FindBucket(bs, bucketName)
             st2 == IF b # 0 /\ bs[b].dependsOn # NoDep
                    THEN visit(bs, bs[b].dependsOn, st1)
                    ELSE [st1 EXCEPT !.ok = TRUE]
         IN IF ~st2.ok THEN st2
            ELSE [ok       |-> TRUE,
                  visiting |-> st2.visiting \ {bucketName},
                  visited  |-> st2.visited \cup {bucketName},
                  order    |-> Append(st2.order, bucketName)]

\* the `for (const bucket of this.buckets)` loop: stops at the first bucket
\* whose visit reports a cycle (failed = its index), else failed = 0
\* a loop that blames the first bucket of the store for every cycle
RECURSIVE VisitAllBlamingFirst(_, _, _)
VisitAllBlamingFirst(bs, i, st) ==
    IF i > Len(bs) THEN [failed |-> 0, marks |-> st]
    ELSE IF bs[i].name \in st.visited THEN VisitAllBlamingFirst(bs, i + 1, st)
    ELSE LET r == visit(bs, bs[i].name, st)
         IN IF ~r.ok THEN [failed |-> 1, marks |-> r]
            ELSE VisitAllBlamingFirst(bs, i + 1, r)

\* the loop `for (const bucket of this.buckets)` from the i-th bucket on:
\* failed is the index of the bucket whose visit found a cycle, 0 if none
RECURSIVE VisitAll(_, _, _)
VisitAll(bs, i, st) ==
    IF i > Len(bs) THEN [failed |-> 0, marks |-> st]
    ELSE IF bs[i].name \in st.visited THEN VisitAll(bs, i + 1, st)
    ELSE LET r == visit(bs, bs[i].name, st)
         IN IF ~r.ok THEN [failed |-> i, marks |-> r]
            ELSE VisitAll(bs, i + 1, r)

\* order.forEach((bucketName, index) => find(bucketName).order = index)
AssignOrder(bs, order) ==
    [i \in DOMAIN bs |->
        IF FindIndex(order, bs[i].name) # 0 /\ FindBucket(bs, bs[i].name) = i
        THEN [bs[i] EXCEPT !.order = FindIndex(order, bs[i].name) - 1]
        ELSE bs[i]]

\* a resolver that reports the cycle but keeps the edge
updateBucketOrderKeepingCycle(bs) ==
    AssignOrder(bs, VisitAll(bs, 1, EmptyMarks).marks.order)

RECURSIVE updateBucketOrder(_)
updateBucketOrder(bs) ==
    LET r == VisitAll(bs, 1, EmptyMarks)
    IN IF r.failed # 0
       THEN updateBucketOrder([bs EXCEPT ![r.failed].dependsOn = NoDep])
       ELSE AssignOrder(bs, r.marks.order)

\* the number of buckets whose dependsOn is set
SetEdges(bs) == Cardinality({i \in DOMAIN bs : bs[i].dependsOn # NoDep})

\* the restarts of updateBucketOrder, followed for at most `fuel` of them:
\* for each, the bucket blamed, the dependsOn it had, and the number of set
\* edges left once it is cleared
RECURSIVE Restarts(_, _)
Restarts(bs, fuel) ==
    LET r == VisitAll(bs, 1, EmptyMarks)
        cleared == [bs EXCEPT ![r.failed].dependsOn = NoDep]
    IN IF r.failed = 0 \/ fuel = 0 THEN <<>>
       ELSE <<[failed |-> r.failed, was |-> bs[r.failed].dependsOn,
               left |-> SetEdges(cleared)]>> \o Restarts(cleared, fuel - 1)

\* (a.order || 0)
OrderKey(b) == IF b.order = Unset THEN 0 ELSE b.order

\* an insertion that puts x before the elements with its key: a sort that
\* does not keep the order of ties
RECURSIVE InsertSortedBeforeTies(_, _, _)
InsertSortedBeforeTies(h, s, x) ==
    IF s = <<>> THEN <<x>>
    ELSE IF OrderKey(h[s[1]]) < OrderKey(h[x])
         THEN <<s[1]>> \o InsertSortedBeforeTies(h, Tail(s), x)
         ELSE <<x>> \o s

\* insertion of x into a sequence sorted by key, after every element whose
\* key is not greater (Array.prototype.sort is stable)
RECURSIVE InsertSorted(_, _, _)
InsertSorted(h, s, x) ==
    IF s = <<>> THEN <<x>>
    ELSE IF OrderKey(h[s[1]]) <= OrderKey(h[x])
         THEN <<s[1]>> \o InsertSorted(h, Tail(s), x)
         ELSE <<x>> \o s

RECURSIVE SortByOrder(_, _)
SortByOrder(h, s) ==
    IF s = <<>> THEN <<>>
    ELSE InsertSorted(h, SortByOrder(h, SubSeq(s, 1, Len(s) - 1)), s[Len(s)])

\* a listing that ignores the resolved order
getBucketsUnsorted(h, bs) == bs

\* [...this.buckets].sort((a, b) => (a.order || 0) - (b.order || 0))
getBucketsInOrder(h, bs) == SortByOrder(h, bs)

\* ------------------------------------------------------ store operations
\* String.prototype.trim on the values typed in the model
trim(value) ==
    CASE value = " a" -> "a"
      [] value = "B " -> "B"
      [] value = " "  -> ""
      [] OTHER        -> value

\* what the user may type in the name box, given the names of the model
Typed(names) == names \cup {" a", "B ", " ", ""}

\* a name box that only refuses the empty name
validateInputNonEmpty(value) ==
    IF value = "" \/ trim(value) = ""
    THEN "Bucket name cannot be empty"
    ELSE "null"

\* validateInput of the name box of multiPR.createBucket
validateInput(value) ==
    IF value = "" \/ trim(value) = ""
    THEN "Bucket name cannot be empty"
    ELSE IF \E i \in DOMAIN buckets : heap[buckets[i]].name = trim(value)
    THEN "Bucket with this name already exists"
    ELSE "null"

\* MultiPRTreeProvider.createBucket(name, title, description) pushes a fresh
\* object
createBucket(name) ==
    /\ \E o \in Objs \ Live :
          /\ \A o2 \in Objs \ Live : o <= o2
          /\ heap' = [heap EXCEPT ![o] = NewBucket(name)]
          /\ buckets' = Append(buckets, o)
    /\ UNCHANGED gitChanges

\* multiPR.createBucket: the name box resolves only with a value validateInput
\* accepts, and the bucket is created under the trimmed name
createBucketCommand(value) ==
    /\ validateInput(value) = "null"
    /\ value # ""
    /\ createBucket(trim(value))

\* a deleteBucket that drops the files of the bucket
ReturnFilesDropping(pool, files) == pool

\* the forEach of deleteBucket: push every file the pool does not hold yet
RECURSIVE ReturnFiles(_, _)
ReturnFiles(pool, files) ==
    IF files = <<>> THEN pool
    ELSE ReturnFiles(IF Head(files) \in Range(pool) THEN pool
                     ELSE Append(pool, Head(files)),
                     Tail(files))

\* MultiPRTreeProvider.deleteBucket(bucket); the argument is an object the
\* caller holds, in the store or not
deleteBucket(o) ==
    LET index == FindIndex(buckets, o)
    IN IF index > 0
       THEN /\ gitChanges' = ReturnFiles(gitChanges, heap[o].files)
            /\ buckets' = Splice(buckets, index)
            /\ heap' = Collect(heap, Range(buckets') \cup Range(run.buckets))
       ELSE UNCHANGED storeVars

\* a move that leaves the path in the buckets it was in
StripPathKeeping(h, bs, p) == h

\* the bucket files after `Remove from other buckets` / `Remove from all buckets`
StripPath(h, bs, p) ==
    [o \in Objs |-> IF o \in Range(bs)
                    THEN [h[o] EXCEPT !.files = RemoveFirst(@, p)]
                    ELSE h[o]]

\* what moveFileToBucket(file, bucket) returns (lines 1065-1067, 1085)
moveFileToBucketReturns(h, p, o) == p \notin Range(h[o].files)

\* what moveFileToGitChanges(file) returns (lines 1090-1092, 1109)
moveFileToGitChangesReturns(h, bs, pool, p) ==
    p \notin Range(pool) /\ isFileInBucket(h, bs, p)

\* a move that pushes the path onto the target whether it holds it or not
AfterMoveToBucketAlways(h, bs, pool, p, o) ==
    [heap |-> [h EXCEPT ![o].files = Append(@, p)], gitChanges |-> RemoveFirst(pool, p)]

\* the bucket files and the pool moveFileToBucket(file, bucket) leaves:
\* nothing moves when the bucket holds the path already
AfterMoveToBucket(h, bs, pool, p, o) ==
    IF p \in Range(h[o].files)
    THEN [heap |-> h, gitChanges |-> pool]
    ELSE [heap |-> [StripPath(h, bs, p) EXCEPT
                        ![o].files = Append(StripPath(h, bs, p)[o].files, p)],
          gitChanges |-> RemoveFirst(pool, p)]

\* a move to the pool that takes the path out of its bucket and forgets it
AfterMoveToGitChangesDropping(h, bs, pool, p) ==
    [heap |-> StripPath(h, bs, p), gitChanges |-> pool]

\* the bucket files and the pool moveFileToGitChanges(file) leaves: nothing
\* moves when the pool holds the path already, and the path is pushed only
\* when some bucket held it
AfterMoveToGitChanges(h, bs, pool, p) ==
    IF p \in Range(pool)
    THEN [heap |-> h, gitChanges |-> pool]
    ELSE [heap |-> StripPath(h, bs, p),
          gitChanges |-> IF isFileInBucket(h, bs, p) THEN Append(pool, p) ELSE pool]

\* MultiPRTreeProvider.moveFileToBucket(file, bucket) as called by handleDrop
\* on a bucket of the tree
moveFileToBucket(p, o) ==
    /\ o \in Range(buckets)
    /\ heap' = AfterMoveToBucket(heap, buckets, gitChanges, p, o).heap
    /\ gitChanges' = AfterMoveToBucket(heap, buckets, gitChanges, p, o).gitChanges
    /\ UNCHANGED buckets

\* MultiPRTreeProvider.moveFileToGitChanges(file) as called by handleDrop on
\* the root
moveFileToGitChanges(p) ==
    /\ heap' = AfterMoveToGitChanges(heap, buckets, gitChanges, p).heap
    /\ gitChanges' = AfterMoveToGitChanges(heap, buckets, gitChanges, p).gitChanges
    /\ UNCHANGED buckets

\* MultiPRTreeProvider.loadGitChanges (multiPR.refresh, the activation timer);
\* a failing `git status` empties the pool
loadGitChanges(reported, statusOk) ==
    /\ gitChanges' = IF statusOk THEN LoadedChanges(heap, buckets, reported) ELSE <<>>
    /\ UNCHANGED <<heap, buckets>>

\* MultiPRTreeProvider.clearBuckets
clearBuckets(reported, statusOk) ==
    /\ buckets' = <<>>
    /\ heap' = Collect(heap, Range(run.buckets))
    /\ gitChanges' = IF statusOk THEN LoadedChanges(heap', buckets', reported) ELSE <<>>

\* write a sequence of bucket records back to the objects of the store
WriteBack(h, bs, recs) ==
    [o \in Objs |-> IF o \in Range(bs) THEN recs[FindIndex(bs, o)] ELSE h[o]]

\* MultiPRTreeProvider.setBucketDependency(bucketName, dependsOn)
setBucketDependency(bucketName, dependsOn) ==
    LET b == FindBucket(BucketSeq, bucketName)
    IN IF b # 0
       THEN /\ heap' = WriteBack(heap, buckets,
                          updateBucketOrder([BucketSeq EXCEPT ![b].dependsOn = dependsOn]))
            /\ UNCHANGED <<buckets, gitChanges>>
       ELSE UNCHANGED storeVars

\* ------------------------------------------------- branch name derivation
\* the characters of the bucket names of the model
NameChars(n) ==
    CASE n = "a"   -> <<"a">>
      [] n = "B"   -> <<"B">>
      [] n = "b!"  -> <<"b", "!">>
      [] n = "c d" -> <<"c", " ", "d">>
      [] n = "e"   -> <<"e">>
      [] OTHER     -> <<>>

MaxBranchLen == 40

toLowerCase(c) == IF c = "B" THEN "b" ELSE c
IsAlnum(c) == c \in {"a", "b", "c", "d", "e"}
IsSpace(c) == c = " "

\* .replace(/\s+/g, '-')
RECURSIVE CollapseSpaces(_)
CollapseSpaces(cs) ==
    IF cs = <<>> THEN <<>>
    ELSE IF IsSpace(cs[1])
         THEN IF Len(cs) > 1 /\ IsSpace(cs[2]) THEN CollapseSpaces(Tail(cs))
              ELSE <<"-">> \o CollapseSpaces(Tail(cs))
         ELSE <<cs[1]>> \o CollapseSpaces(Tail(cs))

\* .replace(/^-+|-+$/g, '')
RECURSIVE TrimDashes(_)
TrimDashes(cs) ==
    IF cs = <<>> THEN <<>>
    ELSE IF cs[1] = "-" THEN TrimDashes(Tail(cs))
    ELSE IF cs[Len(cs)] = "-" THEN TrimDashes(SubSeq(cs, 1, Len(cs) - 1))
    ELSE cs

\* the `sanitized` of createBranchForBucket
Sanitize(bucketName) ==
    LET lower == [i \in DOMAIN NameChars(bucketName) |-> toLowerCase(NameChars(bucketName)[i])]
        kept  == SelectSeq(lower, LAMBDA c : IsAlnum(c) \/ IsSpace(c))
        trimmed == TrimDashes(CollapseSpaces(kept))
    IN SubSeq(trimmed, 1, IF Len(trimmed) < MaxBranchLen THEN Len(trimmed) ELSE MaxBranchLen)

\* the outcomes of GitManager.checkGitHubCLI: it returns, or throws an Error
\* with one of two messages
CheckOk == "ok"
NotFound == "GitHub CLI not found. Install from: https://cli.github.com/"
NotAuthenticated == "GitHub CLI found but not authenticated. Run: gh auth login"

\* gitOperations.ts lines 52-57: `gh auth status` in its own try/catch
authStatus(loggedIn) == IF loggedIn THEN CheckOk ELSE NotAuthenticated

\* gitOperations.ts lines 48-61: `gh --version`, then the login check, both
\* inside the try whose catch throws the 'not found' error
checkGitHubCLI(installed, loggedIn) ==
    IF installed /\ authStatus(loggedIn) = CheckOk THEN CheckOk ELSE NotFound

\* no tooling check was made
NoCheck == [installed |-> FALSE, loggedIn |-> FALSE, error |-> "none"]

\* ------------------------------------------------------------ processAll
NoUrl == [kind |-> "none", head |-> NoBranch, base |-> NoBranch]

\* locals of a processAll invocation; `log` and `restored` record the calls
\* made on GitManager, `cleared` the call of clearBuckets, `asked` the number
\* of confirmation messages shown, `outcome` how the command returned
IdleRun ==
    [buckets |-> <<>>, useGitHubCLI |-> FALSE, cliOk |-> FALSE, idx |-> 0,
     originalBranch |-> NoBranch, baseBranch |-> NoBranch, branchName |-> NoBranch,
     results |-> <<>>, log |-> <<>>, restored |-> FALSE, cleared |-> FALSE,
     installGH |-> "", asked |-> 0, proceed |-> "", outcome |-> "", preview |-> <<>>,
     check |-> NoCheck]

\* positions at which the command awaits the user interface, so that other
\* commands of the extension host run
Waiting == {"idle", "cliPrompt", "confirm", "report"}

CurrentBucket == run.buckets[run.idx]

Returned(r, how) ==
    /\ pc' = "done"
    /\ run' = [r EXCEPT !.outcome = how]

\* bucketByName[name] of line 113: the last bucket of the plan with that name
PlanByName(plan, name) ==
    IF \E i \in DOMAIN plan : heap[plan[i]].name = name
    THEN plan[CHOOSE i \in DOMAIN plan :
                 /\ heap[plan[i]].name = name
                 /\ \A j \in (i + 1)..Len(plan) : heap[plan[j]].name # name]
    ELSE 0

\* lines 120-124: the `Base branch:` line of the preview for the bucket o
PreviewBase(plan, o) ==
    IF heap[o].dependsOn # NoDep
    THEN IF PlanByName(plan, heap[o].dependsOn) # 0
            /\ heap[PlanByName(plan, heap[o].dependsOn)].branchName # NoBranch
         THEN heap[PlanByName(plan, heap[o].dependsOn)].branchName
         ELSE defaultBaseBranch
    ELSE defaultBaseBranch

\* lines 111-140: the preview is opened and the confirmation message shown
Ask(r) ==
    /\ pc' = "confirm"
    /\ run' = [r EXCEPT !.asked = @ + 1,
                        !.preview = [i \in DOMAIN r.buckets |->
                                        PreviewBase(r.buckets, r.buckets[i])]]

Logged(step, ok) ==
    Append(run.log, [step |-> step, bucket |-> heap[CurrentBucket].name, ok |-> ok,
                     dep |-> heap[CurrentBucket].dependsOn,
                     base |-> run.baseBranch, branch |-> run.branchName])

\* lines 65-109: snapshot of the non-empty buckets in resolver order, then the
\* tooling and repository checks
processAllStart(useGitHubCLI, installed, loggedIn) ==
    /\ pc = "idle"
    /\ runs < MaxRuns
    /\ runs' = runs + 1
    /\ edits' = 0
    /\ UNCHANGED <<last, git>>
    /\ UNCHANGED <<storeVars, repoType, head>>
    /\ LET snap == SelectSeq(getBucketsInOrder(heap, buckets),
                             LAMBDA o : Len(heap[o].files) > 0)
           checked == useGitHubCLI /\ repoType = "github"
           toolingOk == checkGitHubCLI(installed, loggedIn) = CheckOk
           r == [IdleRun EXCEPT !.buckets = snap,
                                !.useGitHubCLI = useGitHubCLI,
                                !.cliOk = checked /\ toolingOk,
                                !.check = IF checked
                                          THEN [installed |-> installed,
                                                loggedIn |-> loggedIn,
                                                error |-> checkGitHubCLI(installed, loggedIn)]
                                          ELSE NoCheck]
       IN IF snap = <<>> THEN Returned(IdleRun, "noBuckets")
          ELSE IF checked
               THEN IF toolingOk THEN Ask(r) ELSE pc' = "cliPrompt" /\ run' = r
          ELSE IF repoType = "bitbucket" THEN Ask(r)
          ELSE IF repoType = "unknown" THEN Returned(r, "unknownRepo")
          ELSE Ask(r)

\* a tooling prompt after which the command goes on whatever the answer
cliPromptAnswerContinuing(installGH) ==
    /\ pc = "cliPrompt"
    /\ Ask([run EXCEPT !.installGH = installGH])
    /\ UNCHANGED <<storeVars, repoType, head, runs, edits, last, git>>

\* lines 84-97: answer to 'GitHub CLI not found'
cliPromptAnswer(installGH) ==
    /\ pc = "cliPrompt"
    /\ IF installGH = "Use Manual Method"
       THEN Ask([run EXCEPT !.installGH = installGH])
       ELSE Returned([run EXCEPT !.installGH = installGH], "noTooling")
    /\ UNCHANGED <<storeVars, repoType, head, runs, edits, last, git>>

\* a confirmation whose answer is not looked at
confirmAnswerIgnored(proceed) ==
    /\ pc = "confirm"
    /\ pc' = "begin"
    /\ run' = [run EXCEPT !.proceed = proceed]
    /\ UNCHANGED <<storeVars, repoType, head, runs, edits, last, git>>

\* lines 136-142: answer to the confirmation message
confirmAnswer(proceed) ==
    /\ pc = "confirm"
    /\ IF proceed = "Yes, Create PRs"
       THEN pc' = "begin" /\ run' = [run EXCEPT !.proceed = proceed]
       ELSE Returned([run EXCEPT !.proceed = proceed], "cancelled")
    /\ UNCHANGED <<storeVars, repoType, head, runs, edits, last, git>>

\* line 154: getCurrentBranch, which throws into the outer catch
beginLoop(ok) ==
    /\ pc = "begin"
    /\ IF ok
       THEN /\ pc' = "branch"
            /\ run' = [run EXCEPT !.originalBranch = head, !.idx = 1]
       ELSE Returned(run, "aborted")
    /\ UNCHANGED <<storeVars, repoType, head, runs, edits, last, git>>

\* bucketByName[name] of line 156: the last bucket of the snapshot with that name
BucketByName(name) ==
    IF \E i \in DOMAIN run.buckets : heap[run.buckets[i]].name = name
    THEN run.buckets[CHOOSE i \in DOMAIN run.buckets :
                        /\ heap[run.buckets[i]].name = name
                        /\ \A j \in (i + 1)..Len(run.buckets) : heap[run.buckets[j]].name # name]
    ELSE 0

\* lines 160-162
ResolveBase(o) ==
    IF heap[o].dependsOn # NoDep
    THEN IF BucketByName(heap[o].dependsOn) # 0
            /\ heap[BucketByName(heap[o].dependsOn)].branchName # NoBranch
         THEN heap[BucketByName(heap[o].dependsOn)].branchName
         ELSE defaultBaseBranch
    ELSE defaultBaseBranch

\* lines 160-170 with GitManager.createBranchForBucket: a failing checkout of
\* the base is ignored, a failing `checkout -b` throws into the outer catch
stepBranch(checkoutOk, createOk, timestamp) ==
    /\ pc = "branch"
    /\ LET o == CurrentBucket
           baseBranch == ResolveBase(o)
           branchName == FeatureBranch(Sanitize(heap[o].name), timestamp)
           onBase == IF checkoutOk THEN baseBranch ELSE head
           r == [run EXCEPT !.baseBranch = baseBranch, !.branchName = branchName,
                            !.log = Append(@, [step |-> "branch", bucket |-> heap[o].name,
                                               ok |-> createOk,
                                               dep |-> heap[o].dependsOn,
                                               base |-> baseBranch,
                                               branch |-> branchName])]
       IN IF createOk
          THEN /\ head' = branchName
               /\ heap' = [heap EXCEPT ![o].branchName = branchName]
               /\ pc' = "stage"
               /\ run' = r
          ELSE /\ head' = onBase
               /\ UNCHANGED heap
               /\ Returned(r, "aborted")
    /\ UNCHANGED <<buckets, gitChanges, repoType, runs, edits, last, git>>

\* lines 178, 186, 194: stageFilesForBucket, commitBucket, pushBranch; each
\* throws into the outer catch
stepGit(step, next, ok) ==
    /\ pc = step
    /\ IF ok
       THEN pc' = next /\ run' = [run EXCEPT !.log = Logged(step, TRUE)]
       ELSE Returned([run EXCEPT !.log = Logged(step, FALSE)], "aborted")
    /\ UNCHANGED <<storeVars, repoType, head, runs, edits, last, git>>

\* a staging after which the commit is skipped
stepStageSkipping(ok) == stepGit("stage", "push", ok)

stepStage(ok) == stepGit("stage", "commit", ok)

stepCommit(ok) == stepGit("commit", "push", ok)

\* a push whose failure is not noticed
stepPushIgnoringFailure(ok) ==
    /\ pc = "push"
    /\ pc' = "pr"
    /\ run' = [run EXCEPT !.log = Logged("push", ok)]
    /\ UNCHANGED <<storeVars, repoType, head, runs, edits, last, git>>

stepPush(ok) == stepGit("push", "pr", ok)

\* after a bucket: the next one, or line 230
Advance(r) ==
    IF r.idx < Len(r.buckets)
    THEN pc' = "branch" /\ run' = [r EXCEPT !.idx = @ + 1]
    ELSE pc' = "restore" /\ run' = r

\* a result marked manual only when no tooling was asked for
isManualOnlyWithoutTooling(viaCLI) == ~viaCLI

\* the `manual` field of a successful result: line 204 after createPRWithCLI,
\* line 222 on the compare-URL path
isManual(viaCLI) == IF viaCLI THEN repoType = "bitbucket" ELSE TRUE

\* a failure of createPRWithCLI that leaves the bucket loop
catchPRRethrowing(r, bad) == Returned(r, "aborted")

\* lines 207-214: the catch around createPRWithCLI records the failed result
\* and the loop goes on
catchPR(r, bad) == Advance([r EXCEPT !.results = Append(@, bad)])

\* lines 196-226 with createPRWithCLI / createGitHubPR / createBitbucketPR
stepPR(ok) ==
    /\ pc = "pr"
    /\ LET o == CurrentBucket
           name == heap[o].name
           viaCLI == run.useGitHubCLI \/ repoType = "bitbucket"
           created == IF repoType = "github" THEN ok /\ run.cliOk ELSE ok
           url == IF ~viaCLI
                  THEN [kind |-> "compare", head |-> run.branchName, base |-> NoBranch]
                  ELSE IF repoType = "github"
                  THEN [kind |-> "pr", head |-> heap[o].branchName, base |-> run.baseBranch]
                  ELSE [kind |-> "new", head |-> heap[o].branchName, base |-> run.baseBranch]
           good == [bucketName |-> name, branchName |-> run.branchName, success |-> TRUE,
                    manual |-> isManual(viaCLI), url |-> url, error |-> FALSE]
           bad  == [bucketName |-> name, branchName |-> run.branchName, success |-> FALSE,
                    manual |-> FALSE, url |-> NoUrl, error |-> TRUE]
       IN IF viaCLI
          THEN IF created
               THEN Advance([run EXCEPT !.log = Logged("pr", TRUE),
                                        !.results = Append(@, good)])
               ELSE catchPR([run EXCEPT !.log = Logged("pr", FALSE)], bad)
          ELSE IF ok
               THEN Advance([run EXCEPT !.log = Logged("pr", TRUE),
                                        !.results = Append(@, good)])
               ELSE Returned([run EXCEPT !.log = Logged("pr", FALSE)], "aborted")
    /\ UNCHANGED <<storeVars, repoType, head, runs, edits, last, git>>

successCount(r) == Cardinality({i \in DOMAIN r.results : r.results[i].success})
failureCount(r) == Len(r.results) - successCount(r)

\* line 230: switchToBranch(originalBranch), then lines 233-244
stepRestore(ok) ==
    /\ pc = "restore"
    /\ LET r == [run EXCEPT !.restored = TRUE]
       IN IF ok
          THEN /\ head' = run.originalBranch
               /\ IF successCount(r) > 0
                  THEN pc' = "report" /\ run' = r
                  ELSE Returned(r, "completed")
          ELSE /\ UNCHANGED head
               /\ Returned(r, "aborted")
    /\ UNCHANGED <<storeVars, repoType, runs, edits, last, git>>

\* lines 250-268 once the result message is answered: clearBuckets
reportClosed(reported, statusOk) ==
    /\ pc = "report"
    /\ clearBuckets(reported, statusOk)
    /\ Returned([run EXCEPT !.cleared = TRUE], "completed")
    /\ UNCHANGED <<repoType, head, runs, edits, last, git>>

\* the command has returned; its locals are dropped
processAllReturn ==
    /\ pc = "done"
    /\ pc' = "idle"
    /\ run' = IdleRun
    /\ heap' = Collect(heap, Range(buckets))
    /\ UNCHANGED <<buckets, gitChanges, repoType, head, runs, edits, last, git>>

\* ------------------------------------------- GitManager on one bucket
\* the two-character code of a line of `git status --porcelain`, trimmed
\* (line 451): modified, deleted, untracked, and added to the index but
\* deleted from the working tree
StatusCodes == {"M", "D", "??", "AD"}

getStatusLabel(status) ==
    CASE status = "M" -> "Modified"
      [] status = "A" -> "Added"
      [] status = "D" -> "Deleted"
      [] status = "R" -> "Renamed"
      [] status = "C" -> "Copied"
      [] status = "??" -> "Untracked"
      [] OTHER -> "Changed"

\* a FileItem as loadGitChanges builds it (lines 482-490)
FileItem(path, gitStatus) ==
    [path |-> path, status |-> getStatusLabel(gitStatus), gitStatus |-> gitStatus]

\* what git did with a staging command: staged the path, found no such path
\* (`--ignore-unmatch` makes that a success of `git rm` and it is fatal for
\* `git add`), or failed
Outcomes == {"staged", "unmatched", "failed"}

NoGit ==
    [pc |-> "off", name |-> "", baseBranch |-> NoBranch, files |-> <<>>,
     index |-> {}, cmds |-> <<>>, from |-> NoBranch, branchName |-> NoBranch,
     manifest |-> <<>>, committed |-> {}, branches |-> {}]

Cmd(cmd, arg, ok) == [cmd |-> cmd, arg |-> arg, ok |-> ok]

\* createBranchForBucket with a base checkout whose failure is thrown
createBranchForBucketStrict(checkoutOk, createOk, timestamp) ==
    /\ git.pc = "branch"
    /\ LET branchName == FeatureBranch(Sanitize(git.name), timestamp)
           tried == git.baseBranch # NoBranch
           created == createOk /\ branchName \notin git.branches
       IN IF tried /\ ~checkoutOk
          THEN /\ UNCHANGED head
               /\ git' = [git EXCEPT !.pc = "failed",
                                     !.cmds = Append(@, Cmd("checkout", git.baseBranch, FALSE))]
          ELSE /\ head' = IF created THEN branchName
                          ELSE IF tried THEN git.baseBranch ELSE head
               /\ git' = [git EXCEPT
                            !.pc = IF created THEN "stage" ELSE "failed",
                            !.from = IF ~created THEN NoBranch
                                     ELSE IF tried THEN git.baseBranch ELSE head,
                            !.branchName = IF created THEN branchName ELSE NoBranch,
                            !.branches = IF created THEN @ \cup {branchName} ELSE @,
                            !.cmds = (IF tried THEN Append(@, Cmd("checkout", git.baseBranch, TRUE))
                                      ELSE @)
                                     \o <<Cmd("checkout -b", branchName, created)>>]
    /\ UNCHANGED <<storeVars, repoType, pc, run, runs, edits, last>>

\* gitOperations.ts lines 132-166: `git checkout <base>` in a try/catch that
\* ignores its failure (149-157), then `git checkout -b` off the current HEAD,
\* which git refuses when a branch of that name exists
createBranchForBucket(checkoutOk, createOk, timestamp) ==
    /\ git.pc = "branch"
    /\ LET branchName == FeatureBranch(Sanitize(git.name), timestamp)
           tried == git.baseBranch # NoBranch
           onBase == IF tried /\ checkoutOk THEN git.baseBranch ELSE head
           created == createOk /\ branchName \notin git.branches
       IN /\ head' = IF created THEN branchName ELSE onBase
          /\ git' = [git EXCEPT
                       !.pc = IF created THEN "stage" ELSE "failed",
                       !.from = IF created THEN onBase ELSE NoBranch,
                       !.branchName = IF created THEN branchName ELSE NoBranch,
                       !.branches = IF created THEN @ \cup {branchName} ELSE @,
                       !.cmds = (IF tried THEN Append(@, Cmd("checkout", git.baseBranch, checkoutOk))
                                 ELSE @)
                                \o <<Cmd("checkout -b", branchName, created)>>]
    /\ UNCHANGED <<storeVars, repoType, pc, run, runs, edits, last>>

\* a staging that hands every file to `git add`
usesRemovalNever(file) == FALSE

\* line 116: the files staged with `git rm`
usesRemoval(file) == file.status = "Deleted" \/ file.gitStatus = "D"

\* lines 113-126: the loop over bucket.files; st carries the index, the
\* commands run and whether a command threw; out[i] is what git does with
\* the command for files[i]
RECURSIVE stageEach(_, _, _, _)
stageEach(files, i, out, st) ==
    IF i > Len(files) THEN st
    ELSE LET f == files[i]
             rm == usesRemoval(f)
             ok == IF rm THEN out[i] # "failed" ELSE out[i] = "staged"
             st1 == [index |-> IF out[i] = "staged" THEN st.index \cup {f.path}
                               ELSE st.index,
                     cmds |-> Append(st.cmds, Cmd(IF rm THEN "rm" ELSE "add", f.path, ok)),
                     threw |-> ~rm /\ ~ok]
         IN IF st1.threw THEN st1 ELSE stageEach(files, i + 1, out, st1)

\* gitOperations.ts lines 105-130
stageFilesForBucket(resetOk, out) ==
    /\ git.pc = "stage"
    /\ IF Len(git.files) = 0
       THEN git' = [git EXCEPT !.pc = "commit"]
       ELSE IF ~resetOk
       THEN git' = [git EXCEPT !.pc = "failed",
                               !.cmds = Append(@, Cmd("reset", "", FALSE))]
       ELSE LET st == stageEach(git.files, 1, out,
                                [index |-> {}, threw |-> FALSE,
                                 cmds |-> Append(git.cmds, Cmd("reset", "", TRUE))])
            IN git' = [git EXCEPT !.pc = IF st.threw THEN "failed" ELSE "commit",
                                  !.index = st.index,
                                  !.cmds = st.cmds]
    /\ UNCHANGED <<storeVars, repoType, head, pc, run, runs, edits, last>>

\* gitOperations.ts lines 168-194: the message with its manifest is written,
\* then `git commit -F`, which fails when nothing is staged
commitBucket(ok) ==
    /\ git.pc = "commit"
    /\ LET filesList == [i \in DOMAIN git.files |-> git.files[i].path]
           done == ok /\ git.index # {}
       IN git' = [git EXCEPT !.pc = IF done THEN "push" ELSE "failed",
                             !.manifest = filesList,
                             !.committed = IF done THEN git.index ELSE {},
                             !.index = IF done THEN {} ELSE @,
                             !.cmds = Append(@, Cmd("commit", "", done))]
    /\ UNCHANGED <<storeVars, repoType, head, pc, run, runs, edits, last>>

\* ------------------------------------------------------------ behaviours
NoCall == [op |-> "none", name |-> "", dependsOn |-> "", cyclic |-> FALSE]

\* the record of a call of the provider method op
Called(op) == [NoCall EXCEPT !.op = op]

RepoTypes == {"github", "bitbucket", "unknown"}

Init ==
    /\ heap = [o \in Objs |-> FreeCell]
    /\ buckets = <<>>
    /\ gitChanges = <<>>
    /\ repoType \in RepoTypes
    /\ head = startBranch
    /\ pc = "idle"
    /\ run = IdleRun
    /\ runs = 0
    /\ edits = 0
    /\ last = NoCall
    /\ git = NoGit

CreateBucket == \E value \in Typed(Names) : createBucketCommand(value)
DeleteBucket == \E o \in Live : deleteBucket(o)
DropOnBucket == \E p \in Paths, o \in Objs : moveFileToBucket(p, o)
DropOnRoot == \E p \in Paths : moveFileToGitChanges(p)
Refresh == \E reported \in SUBSET Paths, ok \in BOOLEAN : loadGitChanges(reported, ok)

RunCreateBucket ==
    /\ Len(buckets) < MaxRunBuckets
    /\ \E value \in Typed(RunNames) : createBucketCommand(value)
RunSetDependency ==
    \E n \in RunNames, d \in RunNames \cup {NoDep} : setBucketDependency(n, d)

StoreOp ==
    \/ RunCreateBucket
    \/ DeleteBucket
    \/ DropOnBucket
    \/ DropOnRoot
    \/ Refresh
    \/ RunSetDependency

\* a command of the user interface, run while processAll is not running or
\* awaits an answer
Command ==
    /\ pc \in Waiting
    /\ runs > 0 => edits < MaxEdits
    /\ StoreOp
    /\ edits' = IF runs > 0 THEN edits + 1 ELSE edits
    /\ UNCHANGED <<repoType, head, pc, run, runs, last, git>>

ProcessAllStart ==
    \E cli \in BOOLEAN, installed \in BOOLEAN, loggedIn \in BOOLEAN :
        processAllStart(cli, installed, loggedIn)
CliPromptAnswer == \E a \in {"Install GitHub CLI", "Use Manual Method", "dismissed"} : cliPromptAnswer(a)
ConfirmAnswer == \E a \in {"Yes, Create PRs", "Cancel", "dismissed"} : confirmAnswer(a)
BeginLoop == \E ok \in BOOLEAN : beginLoop(ok)
StepBranch == \E c \in BOOLEAN, ok \in BOOLEAN, t \in Ticks : stepBranch(c, ok, t)
StepStage == \E ok \in BOOLEAN : stepStage(ok)
StepCommit == \E ok \in BOOLEAN : stepCommit(ok)
StepPush == \E ok \in BOOLEAN : stepPush(ok)
StepPR == \E ok \in BOOLEAN : stepPR(ok)
StepRestore == \E ok \in BOOLEAN : stepRestore(ok)
ReportClosed == \E reported \in SUBSET Paths, ok \in BOOLEAN : reportClosed(reported, ok)

ProcessAll ==
    \/ ProcessAllStart
    \/ CliPromptAnswer
    \/ ConfirmAnswer
    \/ BeginLoop
    \/ StepBranch
    \/ StepStage
    \/ StepCommit
    \/ StepPush
    \/ StepPR
    \/ StepRestore
    \/ ReportClosed
    \/ processAllReturn

Next == Command \/ ProcessAll

Spec == Init /\ [][Next]_vars

\* the file registry alone: the commands of the tree view that move files,
\* and clearBuckets, with no processAll running
ClearBuckets ==
    \E reported \in SUBSET Paths, ok \in BOOLEAN : clearBuckets(reported, ok)

StoreInit == Init /\ repoType = "github"

\* deleteBucket handed an object that is not in the store (a tree item that
\* outlived its bucket)
DeleteStale == \E o \in Objs \ Range(buckets) : deleteBucket(o)

StoreNext ==
    /\ \/ CreateBucket /\ last' = Called("createBucket")
       \/ DeleteBucket /\ last' = Called("deleteBucket")
       \/ DeleteStale /\ last' = Called("deleteStale")
       \/ DropOnBucket /\ last' = Called("moveFileToBucket")
       \/ DropOnRoot /\ last' = Called("moveFileToGitChanges")
       \/ Refresh /\ last' = Called("loadGitChanges")
       \/ ClearBuckets /\ last' = Called("clearBuckets")
    /\ UNCHANGED <<repoType, head, pc, run, runs, edits, git>>

StoreSpec == StoreInit /\ [][StoreNext]_vars

\* the resolver as a function of the store: every store of buckets with
\* distinct names and every assignment of dependsOn, resolved once
AnyBucket ==
    {[NewBucket(n) EXCEPT !.dependsOn = d] : n \in Names, d \in Names \cup {NoDep}}

AnyStoreInit ==
    /\ \E n \in 0..MaxObjs : buckets = [i \in 1..n |-> i]
    /\ heap \in [Objs -> AnyBucket \cup {FreeCell}]
    /\ \A o \in Objs : (heap[o] = FreeCell) <=> (o > Len(buckets))
    /\ \A o1, o2 \in Range(buckets) : o1 # o2 => heap[o1].name # heap[o2].name
    /\ gitChanges = <<>>
    /\ repoType = "github"
    /\ head = startBranch
    /\ pc = "idle"
    /\ run = IdleRun
    /\ runs = 0
    /\ edits = 0
    /\ last = NoCall
    /\ git = NoGit

UpdateBucketOrder ==
    /\ heap' = WriteBack(heap, buckets, updateBucketOrder(BucketSeq))
    /\ last' = Called("updateBucketOrder")
    /\ UNCHANGED <<buckets, gitChanges, repoType, head, pc, run, runs, edits, git>>

OrderSpec == AnyStoreInit /\ [][UpdateBucketOrder]_vars

\* the bucket store and the dependency resolver alone
Edges == [i \in DOMAIN buckets |-> heap[buckets[i]].dependsOn]

\* the name reached from name d by following k dependsOn edges of the store
RECURSIVE Follow(_, _)
Follow(d, k) ==
    IF FindBucket(BucketSeq, d) = 0 \/ BucketSeq[FindBucket(BucketSeq, d)].dependsOn = NoDep
    THEN {d}
    ELSE IF k = 0 THEN {d}
    ELSE {d} \cup Follow(BucketSeq[FindBucket(BucketSeq, d)].dependsOn, k - 1)

\* the edge n -> d would close a cycle over the edges of the store
ClosesCycle(n, d) ==
    /\ d # NoDep
    /\ FindBucket(BucketSeq, n) # 0
    /\ n \in Follow(d, Len(buckets))

SetDependencyCall ==
    \E n \in Names, d \in Names \cup {NoDep} :
        /\ setBucketDependency(n, d)
        /\ last' = [op |-> "setBucketDependency", name |-> n, dependsOn |-> d,
                    cyclic |-> ClosesCycle(n, d)]

ResolverNext ==
    /\ \/ SetDependencyCall
       \/ (CreateBucket \/ DeleteBucket) /\ last' = NoCall
    /\ UNCHANGED <<repoType, head, pc, run, runs, edits, git>>

ResolverSpec == StoreInit /\ [][ResolverNext]_vars

\* multiPR.setDependency: the quick pick offers 'None' and the names of the
\* other buckets of the store
SetDependencyCommand ==
    \E o \in Range(buckets) :
        \E d \in (StoreNames \ {heap[o].name}) \cup {NoDep} :
            /\ setBucketDependency(heap[o].name, d)
            /\ last' = [op |-> "setBucketDependency", name |-> heap[o].name,
                        dependsOn |-> d, cyclic |-> ClosesCycle(heap[o].name, d)]

\* the bucket store as the commands of the tree view drive it
CommandNext ==
    /\ \/ SetDependencyCommand
       \/ CreateBucket /\ last' = Called("createBucket")
       \/ DeleteBucket /\ last' = Called("deleteBucket")
    /\ UNCHANGED <<repoType, head, pc, run, runs, edits, git>>

CommandSpec == StoreInit /\ [][CommandNext]_vars

\* GitManager at work on one bucket of a run: any bucket name and file list
\* with distinct paths, any resolved base, the working copy on the user's
\* branch or on the branch of the bucket processed before, anything staged.
\* PreviousBranch is a branch createBranchForBucket made earlier, in this run
\* or in a run before it
PreviousBranch == FeatureBranch(<<"a">>, 0)

RECURSIVE FileListsOf(_)
FileListsOf(n) ==
    IF n = 0 THEN {<<>>}
    ELSE UNION {{Append(fs, FileItem(p, c)) :
                    p \in Paths \ {fs[i].path : i \in DOMAIN fs}, c \in StatusCodes} :
                fs \in FileListsOf(n - 1)}

FileLists == UNION {FileListsOf(n) : n \in 0..MaxFiles}

GitInit ==
    /\ heap = [o \in Objs |-> FreeCell]
    /\ buckets = <<>>
    /\ gitChanges = <<>>
    /\ repoType = "github"
    /\ head \in {startBranch, PreviousBranch}
    /\ pc = "idle"
    /\ run = IdleRun
    /\ runs = 0
    /\ edits = 0
    /\ last = NoCall
    /\ \E name \in RunNames, base \in {NoBranch, defaultBaseBranch, PreviousBranch},
          files \in FileLists, staged \in SUBSET Paths,
          earlier \in SUBSET {PreviousBranch} :
          /\ head = PreviousBranch => PreviousBranch \in earlier
          /\ git = [NoGit EXCEPT !.pc = "branch", !.name = name, !.baseBranch = base,
                                 !.files = files, !.index = staged, !.branches = earlier]

CreateBranchForBucket ==
    \E c \in BOOLEAN, ok \in BOOLEAN, t \in Ticks : createBranchForBucket(c, ok, t)
StageFilesForBucket ==
    \E resetOk \in BOOLEAN, out \in [1..MaxFiles -> Outcomes] :
        stageFilesForBucket(resetOk, out)
CommitBucket == \E ok \in BOOLEAN : commitBucket(ok)

GitNext == CreateBranchForBucket \/ StageFilesForBucket \/ CommitBucket

GitSpec == GitInit /\ [][GitNext]_vars

\* the file registry with the arguments and the result of each move
MoveCall(op, p, o, returned) ==
    [op |-> op, name |-> "", dependsOn |-> "", cyclic |-> FALSE,
     path |-> p, target |-> o, returned |-> returned]

MoveToBucketCall ==
    \E p \in Paths, o \in Objs :
        /\ moveFileToBucket(p, o)
        /\ last' = MoveCall("moveFileToBucket", p, o, moveFileToBucketReturns(heap, p, o))

MoveToGitChangesCall ==
    \E p \in Paths :
        /\ moveFileToGitChanges(p)
        /\ last' = MoveCall("moveFileToGitChanges", p, 0,
                            moveFileToGitChangesReturns(heap, buckets, gitChanges, p))

MoveNext ==
    /\ \/ MoveToBucketCall
       \/ MoveToGitChangesCall
       \/ (CreateBucket \/ DeleteBucket \/ Refresh) /\ last' = NoCall
    /\ UNCHANGED <<repoType, head, pc, run, runs, edits, git>>

MoveSpec == StoreInit /\ [][MoveNext]_vars

\* the bucket store as the commands drive it, with the listings of the tree
\* view and of processAll
ListCall(listing) ==
    [op |-> "getBucketsInOrder", name |-> "", dependsOn |-> "", cyclic |-> FALSE,
     listing |-> listing]

\* MultiPRTreeProvider.getBucketsInOrder()
GetBucketsInOrderCall ==
    /\ last' = ListCall(getBucketsInOrder(heap, buckets))
    /\ UNCHANGED storeVars

ListNext ==
    /\ \/ GetBucketsInOrderCall
       \/ SetDependencyCommand
       \/ CreateBucket /\ last' = Called("createBucket")
       \/ DeleteBucket /\ last' = Called("deleteBucket")
    /\ UNCHANGED <<repoType, head, pc, run, runs, edits, git>>

ListSpec == StoreInit /\ [][ListNext]_vars

\* ---------------------------------------------------------------- claims
PoolPaths == Range(gitChanges)
BucketPaths(i) == Range(heap[buckets[i]].files)

\* the number of places that hold path p: occurrences in the pool plus
\* occurrences in the file list of every bucket of the store
RECURSIVE HoldersFrom(_, _)
HoldersFrom(p, i) ==
    IF i > Len(buckets) THEN 0
    ELSE Count(heap[buckets[i]].files, p) + HoldersFrom(p, i + 1)
Holders(p) == Count(gitChanges, p) + HoldersFrom(p, 1)

\* C1: Exclusivity - after any sequence of loadGitChanges, createBucket,
\* deleteBucket, moveFileToBucket, moveFileToGitChanges and clearBuckets every
\* path is held by at most one container among the pool and the buckets, and
\* occurs at most once in it.
C1_Exclusivity == \A p \in Paths : Holders(p) <= 1

\* a path sits in a bucket while another bucket exists and the pool holds a
\* different path: moves and a load have acted
C1_Witness ==
    /\ Len(buckets) >= 2
    /\ \E i \in DOMAIN buckets : \E p \in BucketPaths(i) :
          \E q \in PoolPaths : q # p

\* the bucket (index in the store) that bucket i depends on, 0 when it has no
\* dependency or the name is not in the store
DepIndex(i) ==
    IF heap[buckets[i]].dependsOn = NoDep THEN 0
    ELSE FindBucket(BucketSeq, heap[buckets[i]].dependsOn)

\* the buckets reached from i by following dependsOn one or more times
RECURSIVE Chain(_, _)
Chain(i, k) ==
    IF k = 0 \/ DepIndex(i) = 0 THEN {}
    ELSE {DepIndex(i)} \cup Chain(DepIndex(i), k - 1)
Ancestors(i) == Chain(i, Len(buckets))

PositionInOrder(i) == FindIndex(getBucketsInOrder(heap, buckets), buckets[i])

\* C4: Topological validity - after any sequence of createBucket, deleteBucket
\* and setBucketDependency, getBucketsInOrder() places every bucket after every
\* existing bucket it depends on, directly or transitively.
C4_TopologicalValidity ==
    \A i \in DOMAIN buckets : \A j \in Ancestors(i) :
        PositionInOrder(j) < PositionInOrder(i)

\* a chain of three buckets whose resolver order is not the insertion order
C4_Witness ==
    /\ Len(buckets) = 3
    /\ \E i \in DOMAIN buckets : Cardinality(Ancestors(i)) = 2
    /\ getBucketsInOrder(heap, buckets) # buckets

\* C5: Acyclicity - after every completed setBucketDependency call the
\* dependsOn relation over the buckets contains no cycle.
C5_Acyclic == \A i \in DOMAIN buckets : i \notin Ancestors(i)

\* the latest call asked for an edge between two buckets that closed a cycle
\* over the edges of a store of three buckets
C5_Witness ==
    /\ last.cyclic
    /\ last.name # last.dependsOn
    /\ Len(buckets) = 3

\* the dependsOn of the bucket of the store with that name
DependsOnOf(name) == BucketSeq[FindBucket(BucketSeq, name)].dependsOn

\* C6: Cycle rejection targets the new edge - when setBucketDependency(b, d)
\* would close a cycle, the edge cleared is the just-set edge of b: b finishes
\* the call with no dependency.
C6_NewEdgeRejected == last.cyclic => DependsOnOf(last.name) = NoDep

\* ------------------------------------------------- claims on processAll
\* the bucket loop of the run was entered (the original branch is recorded)
LoopStarted == run.idx >= 1

SnapshotNames == {heap[run.buckets[i]].name : i \in DOMAIN run.buckets}

\* the pipeline of the bucket was started: createBranchForBucket was called
Attempted(name) ==
    \E k \in DOMAIN run.log : run.log[k].step = "branch" /\ run.log[k].bucket = name

ResultsOf(name) == {i \in DOMAIN run.results : run.results[i].bucketName = name}

\* C2: Per-bucket failure isolation - if any pipeline step of a bucket fails,
\* the failure is recorded as that bucket's failed result and the pipeline of
\* every later bucket of the run is still attempted.
C2_FailureIsolation ==
    pc = "done" =>
        \A k \in DOMAIN run.log :
            ~run.log[k].ok =>
                /\ \E i \in ResultsOf(run.log[k].bucket) : ~run.results[i].success
                /\ \A n \in SnapshotNames : Attempted(n)

\* C3: Branch restoration - once the original branch is recorded and the
\* bucket loop started, the run ends with a checkout of the original branch
\* whatever the outcome of the pipeline steps.
C3_BranchRestored == (pc = "done" /\ LoopStarted) => run.restored

\* C7: Stacked base resolution - when a bucket depends on a bucket of the same
\* run, the dependency's branch was created earlier in this run and that
\* branch is the base used for the bucket.
C7_StackedBase ==
    \A k \in DOMAIN run.log :
        (/\ run.log[k].step = "branch"
         /\ run.log[k].dep # NoDep
         /\ run.log[k].dep \in SnapshotNames)
        => \E j \in 1..(k - 1) :
              /\ run.log[j].step = "branch"
              /\ run.log[j].bucket = run.log[k].dep
              /\ run.log[j].ok
              /\ run.log[k].base = run.log[j].branch

\* automated creation was requested, the tooling check failed and the run
\* went on with the manual method
ToolingUnavailable == run.useGitHubCLI /\ repoType = "github" /\ ~run.cliOk

\* C8: Manual fallback - with the hosting tooling unavailable every recorded
\* result is a success marked manual; no bucket is marked failed.
C8_ManualFallback ==
    ToolingUnavailable =>
        \A i \in DOMAIN run.results : run.results[i].success /\ run.results[i].manual

\* C9: Clear-on-success - at the end of a run the bucket store is cleared if
\* and only if at least one bucket of the run succeeded.
C9_ClearOnSuccess ==
    (pc = "done" /\ LoopStarted) => (run.cleared <=> successCount(run) > 0)

\* C10: Every pipeline failure is reported - at the end of a run each bucket
\* whose pipeline was started has exactly one entry in the results.
C10_AllReported ==
    pc = "done" =>
        /\ \A n \in SnapshotNames : Attempted(n) => Cardinality(ResultsOf(n)) = 1
        /\ Len(run.results) = Cardinality({n \in SnapshotNames : Attempted(n)})

\* ------------------------------------------- claims on the bucket store
\* C11: Dependency well-formedness - in every reachable state each bucket's
\* dependsOn, if set, names a bucket that currently exists in the store and is
\* not the bucket itself.
C11_WellFormed ==
    \A i \in DOMAIN buckets :
        heap[buckets[i]].dependsOn # NoDep =>
            /\ heap[buckets[i]].dependsOn \in StoreNames
            /\ heap[buckets[i]].dependsOn # heap[buckets[i]].name

\* the paths held by the object o
FilesOf(h, o) == Range(h[o].files)

\* C12: Delete conserves files - deleteBucket of a bucket of the store
\* removes exactly that bucket, leaves the files of every other bucket as they
\* were, and afterwards every path the bucket held is in the pool exactly
\* once (and the pool lost nothing); deleteBucket of an object that is not in
\* the store changes nothing.
C12_DeleteConserves ==
    [][\A o \in Objs :
         deleteBucket(o) =>
            IF o \in Range(buckets)
            THEN /\ buckets' = SelectSeq(buckets, LAMBDA x : x # o)
                 /\ Len(buckets') = Len(buckets) - 1
                 /\ \A x \in Range(buckets') :
                        heap'[x].files = heap[x].files /\ heap'[x].name = heap[x].name
                 /\ \A p \in FilesOf(heap, o) : Count(gitChanges', p) = 1
                 /\ \A p \in Range(gitChanges) : Count(gitChanges', p) = Count(gitChanges, p)
                 /\ Range(gitChanges') = Range(gitChanges) \cup FilesOf(heap, o)
            ELSE UNCHANGED storeVars]_vars

\* a bucket holding files was just deleted while another bucket holds a file
C12_Witness ==
    /\ last.op = "deleteBucket"
    /\ gitChanges # <<>>
    /\ \E i \in DOMAIN buckets : heap[buckets[i]].files # <<>>

\* C13: Move round trip - for a path in the pool, moving it to any bucket of
\* the store and then back to the pool gives the same set of pool paths and
\* the same set of paths in every bucket as before the two moves.
C13_MoveRoundTrip ==
    \A p \in Range(gitChanges), o \in Range(buckets) :
        LET there == AfterMoveToBucket(heap, buckets, gitChanges, p, o)
            back  == AfterMoveToGitChanges(there.heap, buckets, there.gitChanges, p)
        IN /\ p \in FilesOf(there.heap, o)
           /\ p \notin Range(there.gitChanges)
           /\ Range(back.gitChanges) = Range(gitChanges)
           /\ \A x \in Range(buckets) : FilesOf(back.heap, x) = FilesOf(heap, x)

\* a path came back to a pool of two paths, with two buckets in the store to
\* move it to
C13_Witness ==
    /\ last.op = "moveFileToGitChanges"
    /\ Len(gitChanges) = 2
    /\ Len(buckets) >= 2

\* the paths some bucket of the store holds
OwnedPaths == UNION {FilesOf(heap, o) : o \in Range(buckets)}

C15_UniqueNames ==
    /\ [](\A i, j \in DOMAIN buckets :
            i # j => heap[buckets[i]].name # heap[buckets[j]].name)
    /\ [][Len(buckets') > Len(buckets) =>
            /\ Len(buckets') = Len(buckets) + 1
            /\ \A i \in DOMAIN buckets :
                  buckets'[i] = buckets[i] /\ heap'[buckets[i]] = heap[buckets[i]]
            /\ LET b == heap'[buckets'[Len(buckets')]]
               IN /\ b.name \notin StoreNames
                  /\ b.name # ""
                  /\ b.files = <<>>
                  /\ b.branchName = NoBranch
                  /\ b.dependsOn = NoDep]_vars

\* a bucket was just created in a store that holds every name of the model,
\* so that every further name typed is refused
C15_Witness ==
    /\ last.op = "createBucket"
    /\ StoreNames = Names
    /\ \A value \in Typed(Names) : validateInput(value) # "null"

\* ---------------------------------------- claims on the steps of processAll
\* the invocation has passed the confirmation and works on the repository
PastConfirmation ==
    \/ pc \in {"begin", "branch", "stage", "commit", "push", "pr", "restore", "report"}
    \/ run.log # <<>>
    \/ run.results # <<>>
    \/ run.restored
    \/ run.cleared

\* the invocation made no call on the repository and none on the store
NothingDone(r) ==
    /\ r.log = <<>>
    /\ r.results = <<>>
    /\ r.idx = 0
    /\ ~r.restored
    /\ ~r.cleared

\* C16: Confirmation gate - processAll shows the confirmation at most once, and
\* exactly once with the answer 'Yes, Create PRs' before it makes any call on
\* the repository; when the answer is anything else, no branch was created,
\* nothing was staged, committed or pushed, no PR was created, and the step
\* that returns leaves the bucket store and the checked-out branch unchanged.
C16_ConfirmationGate ==
    /\ [](/\ run.asked <= 1
          /\ PastConfirmation => run.asked = 1 /\ run.proceed = "Yes, Create PRs"
          /\ run.outcome = "cancelled" =>
                run.asked = 1 /\ run.proceed # "Yes, Create PRs" /\ NothingDone(run))
    /\ [][pc = "confirm" /\ pc' # "confirm" /\ run'.proceed # "Yes, Create PRs" =>
            /\ pc' = "done"
            /\ run'.outcome = "cancelled"
            /\ NothingDone(run')
            /\ UNCHANGED <<storeVars, head>>]_vars

\* the user declined the plan for two buckets
C16_Witness ==
    /\ pc = "done"
    /\ run.outcome = "cancelled"
    /\ Len(run.buckets) = 2

\* C17: Pre-flight aborts mutate nothing - when the repository host is unknown
\* (whatever the CLI preference), or when automated creation was requested,
\* the tooling check failed and the answer was not 'Use Manual Method',
\* processAll returns without having shown the confirmation, created a branch,
\* staged, committed or pushed, and the returning step leaves the buckets and
\* the checked-out branch unchanged.
C17_PreflightAborts ==
    /\ [](/\ run.outcome \in {"unknownRepo", "noTooling"} =>
                NothingDone(run) /\ run.asked = 0
          /\ repoType = "unknown" =>
                /\ ~PastConfirmation
                /\ run.asked = 0
                /\ run.outcome \in {"", "noBuckets", "unknownRepo"}
          /\ ToolingUnavailable /\ (PastConfirmation \/ run.asked > 0) =>
                run.installGH = "Use Manual Method"
          /\ run.installGH \notin {"", "Use Manual Method"} =>
                pc = "done" /\ run.outcome = "noTooling")
    /\ [][pc # "done" /\ pc' = "done" /\ run'.outcome \in {"unknownRepo", "noTooling"} =>
            UNCHANGED <<storeVars, head>>]_vars

\* the tooling check failed for a plan of two buckets and the user chose to
\* install the tooling
C17_Witness ==
    /\ pc = "done"
    /\ run.outcome = "noTooling"
    /\ run.installGH = "Install GitHub CLI"
    /\ Len(run.buckets) = 2

\* the place of a step in the pipeline of one bucket
StepRank(step) ==
    CASE step = "branch" -> 1
      [] step = "stage"  -> 2
      [] step = "commit" -> 3
      [] step = "push"   -> 4
      [] step = "pr"     -> 5

\* the calls of the log that start a bucket
BranchCalls == SelectSeq(run.log, LAMBDA e : e.step = "branch")

\* C18: Strictly sequential pipeline - the calls processAll makes on the
\* repository are, bucket by bucket in the order of the plan, branch creation,
\* staging, commit, push and PR creation in that order; a step follows only a
\* step of the same bucket that succeeded, and the first step of the next
\* bucket follows only the PR step of the previous one.
C18_Sequential ==
    /\ \A k \in DOMAIN run.log :
          IF k = 1 THEN run.log[k].step = "branch"
          ELSE LET d == run.log[k - 1]
                   e == run.log[k]
               IN IF d.step = "pr"
                  THEN e.step = "branch" /\ e.bucket # d.bucket
                  ELSE /\ e.bucket = d.bucket
                       /\ d.ok
                       /\ StepRank(e.step) = StepRank(d.step) + 1
    /\ Len(BranchCalls) <= Len(run.buckets)
    /\ \A k \in DOMAIN BranchCalls : BranchCalls[k].bucket = heap[run.buckets[k]].name
    /\ pc \in {"stage", "commit", "push", "pr"} =>
          /\ Len(BranchCalls) = run.idx
          /\ run.log[Len(run.log)].bucket = heap[CurrentBucket].name
          /\ StepRank(run.log[Len(run.log)].step) + 1 =
                StepRank(pc)

\* the second bucket of a plan went through its five steps after the first
C18_Witness ==
    /\ Len(run.log) = 10
    /\ run.log[5].step = "pr"
    /\ run.log[6].step = "branch"
    /\ run.log[10].step = "pr"

\* the position in the log of the call `step` made for the bucket of the
\* result r, 0 when the log has none
CallFor(r, step) ==
    IF \E k \in DOMAIN run.log : run.log[k].step = step /\ run.log[k].bucket = r.bucketName
    THEN CHOOSE k \in DOMAIN run.log :
            run.log[k].step = step /\ run.log[k].bucket = r.bucketName
    ELSE 0

\* the call at position k of the log succeeded on the branch of the result r
OnBranchOf(r, k) ==
    /\ k > 0
    /\ run.log[k].ok
    /\ run.log[k].branch = r.branchName

\* C19: A recorded result implies a pushed branch - every entry of results,
\* success or failure, carries the feature branch created for its bucket in
\* this run, and that branch was created, staged on, committed to and pushed,
\* in that order, before the PR step that recorded the entry.
C19_ResultImpliesPushed ==
    \A i \in DOMAIN run.results :
        LET r == run.results[i]
            k1 == CallFor(r, "branch")
            k2 == CallFor(r, "stage")
            k3 == CallFor(r, "commit")
            k4 == CallFor(r, "push")
            k5 == CallFor(r, "pr")
        IN /\ r.branchName.kind = "feature"
           /\ OnBranchOf(r, k1)
           /\ OnBranchOf(r, k2)
           /\ OnBranchOf(r, k3)
           /\ OnBranchOf(r, k4)
           /\ k1 < k2 /\ k2 < k3 /\ k3 < k4 /\ k4 < k5
           /\ run.log[k5].ok = r.success

\* a failed PR creation was recorded after a successful one
C19_Witness ==
    /\ Len(run.results) = 2
    /\ run.results[1].success
    /\ ~run.results[2].success

\* ------------------------------------------------ claims on the resolver
\* C20: Resolver termination - for every store of buckets and every assignment
\* of dependsOn, updateBucketOrder returns; each restart after a detected cycle
\* clears one dependsOn that was set and nothing else, so the restarts are at
\* most as many as the set edges, which are at most as many as the buckets;
\* and the store it leaves needs no restart.
C20_ResolverTerminates ==
    LET t == Restarts(BucketSeq, Len(buckets) + 1)
    IN /\ Len(t) <= SetEdges(BucketSeq)
       /\ SetEdges(BucketSeq) <= Len(buckets)
       /\ \A k \in DOMAIN t :
             /\ t[k].was # NoDep
             /\ t[k].left = SetEdges(BucketSeq) - k
       /\ last.op = "updateBucketOrder" =>
             /\ t = <<>>
             /\ \A i \in DOMAIN buckets : heap[buckets[i]].order >= 0

\* a store with two cycles, which updateBucketOrder resolves in two restarts
C20_Witness ==
    /\ last.op = "none"
    /\ Len(Restarts(BucketSeq, Len(buckets) + 1)) = 2
    /\ Len(buckets) = 3

\* the buckets on the cycle the edge n -> d closes over the edges of the store
CycleOf(n, d) ==
    IF ClosesCycle(n, d)
    THEN {x \in Follow(d, Len(buckets)) : n \in Follow(x, Len(buckets))}
    ELSE {}

\* the buckets whose dependsOn after the call is not what the request alone
\* would leave: the requested edge for bucket n, the former edge for the rest
Altered(n, d) ==
    {i \in DOMAIN buckets :
        Edges'[i] # (IF heap[buckets[i]].name = n THEN d ELSE Edges[i])}

\* C21: setBucketDependency clears at most one edge per call - after a call
\* setBucketDependency(b, d) on an acyclic store at most one bucket has a
\* dependsOn other than the one it had (b: other than d), none when the edge
\* closes no cycle, and a bucket whose edge was cleared lies on the cycle.
C21_AtMostOneCleared ==
    [][last'.op = "setBucketDependency" /\ buckets' = buckets =>
          LET n == last'.name
              d == last'.dependsOn
          IN /\ Cardinality(Altered(n, d)) <= 1
             /\ ~ClosesCycle(n, d) => Altered(n, d) = {}
             /\ \A i \in Altered(n, d) :
                   /\ Edges'[i] = NoDep
                   /\ heap[buckets[i]].name \in CycleOf(n, d)]_vars

\* the order values of the buckets of the store
Orders == {heap[buckets[i]].order : i \in DOMAIN buckets}

\* C22: Order materialization - after a completed setBucketDependency call on
\* a bucket of the store, the order values of the n buckets are the integers
\* 0..n-1, each used once, and a bucket has a greater order than the bucket
\* it depends on.
C22_OrderMaterialized ==
    last.op = "setBucketDependency" /\ last.name \in StoreNames =>
        /\ Orders = 0..(Len(buckets) - 1)
        /\ \A i, j \in DOMAIN buckets :
              i # j => heap[buckets[i]].order # heap[buckets[j]].order
        /\ \A i \in DOMAIN buckets :
              DepIndex(i) # 0 => heap[buckets[DepIndex(i)]].order < heap[buckets[i]].order

\* --------------------------------------- claims on the results of processAll
\* the object named `name` lacks a branch: no bucket of the store has the name,
\* none of the run has it, or the one of the run has no branchName
NoBranchFor(name) ==
    \/ name \notin StoreNames
    \/ BucketByName(name) = 0
    \/ heap[BucketByName(name)].branchName = NoBranch

\* C23: Default-base fallback - the base resolved for a bucket is the default
\* base branch exactly when the bucket has no dependsOn, or its dependsOn
\* names a bucket that does not exist, is not part of the run or has no
\* branchName; the branch step follows whatever the case.
C23_DefaultBaseFallback ==
    [][pc = "branch" /\ pc' # "branch" =>
          LET dep == heap[CurrentBucket].dependsOn
          IN /\ run'.baseBranch = ResolveBase(CurrentBucket)
             /\ (run'.baseBranch = defaultBaseBranch) <=>
                    (dep = NoDep \/ NoBranchFor(dep))]_vars

\* the run asks createPRWithCLI for its change requests (line 197)
ViaCLI == run.useGitHubCLI \/ repoType = "bitbucket"

PRCalls == SelectSeq(run.log, LAMBDA e : e.step = "pr")

\* the only calls of the run that failed are calls of createPRWithCLI
OnlyPRFailed ==
    /\ ViaCLI
    /\ \E k \in DOMAIN run.log : run.log[k].step = "pr" /\ ~run.log[k].ok
    /\ \A k \in DOMAIN run.log : run.log[k].step # "pr" => run.log[k].ok
    /\ ~(run.restored /\ run.outcome = "aborted")

\* C24: Failure of the PR step alone - when only the creation of the change
\* request fails for a bucket, a failed result with the bucket's name, its
\* branch name and the error is recorded, the remaining buckets of the plan
\* are processed, the original branch is checked out at the end and the
\* failures are reported.
C24_PRFailureRecorded ==
    (pc = "done" /\ OnlyPRFailed) =>
        /\ Len(PRCalls) = Len(run.buckets)
        /\ Len(run.results) = Len(run.buckets)
        /\ \A k \in DOMAIN PRCalls :
              /\ PRCalls[k].bucket = heap[run.buckets[k]].name
              /\ run.results[k].bucketName = PRCalls[k].bucket
              /\ run.results[k].branchName = PRCalls[k].branch
              /\ run.results[k].success = PRCalls[k].ok
              /\ run.results[k].error = ~PRCalls[k].ok
        /\ run.restored
        /\ head = run.originalBranch
        /\ run.outcome = "completed"
        /\ failureCount(run) > 0

\* the first bucket of a plan of two failed at its PR step, the second
\* succeeded, and the run is over
C24_Witness ==
    /\ pc = "done"
    /\ OnlyPRFailed
    /\ Len(run.results) = 2
    /\ ~run.results[1].success
    /\ run.results[2].success
    /\ head = run.originalBranch

\* the branch a recorded URL asks the hosting service to merge into: the
\* `--base` of `gh pr create`, the `dest` of the Bitbucket URL; a GitHub URL
\* `/compare/<branch>` names no base and compares with the default branch of
\* the repository
TargetOf(url) == IF url.kind = "compare" THEN defaultBaseBranch ELSE url.base

\* C25: Change request targets the resolved base - for every successful result
\* the change request or manual URL goes from the bucket's new branch onto the
\* base resolved for that bucket, on the GitHub tooling path, the Bitbucket
\* URL path and the GitHub compare-URL path alike.
C25_TargetsResolvedBase ==
    \A i \in DOMAIN run.results :
        run.results[i].success =>
            LET r == run.results[i]
                k == CallFor(r, "pr")
            IN /\ k > 0
               /\ r.url.head = r.branchName
               /\ TargetOf(r.url) = run.log[k].base

\* C26: Manual flag - a successful result is marked manual exactly when the
\* change request was not created automatically: every Bitbucket result and
\* every GitHub result of a run with the tooling preference disabled is
\* manual, a result whose change request the GitHub tooling created is not.
C26_ManualFlag ==
    \A i \in DOMAIN run.results :
        run.results[i].success =>
            /\ run.results[i].manual <=> run.results[i].url.kind # "pr"
            /\ run.results[i].manual <=> (repoType = "bitbucket" \/ ~run.useGitHubCLI)
            /\ ~run.results[i].manual <=> (repoType = "github" /\ run.cliOk)

\* a Bitbucket run recorded two successful results, both manual
C26_Witness ==
    /\ repoType = "bitbucket"
    /\ Len(run.results) = 2
    /\ \A i \in DOMAIN run.results : run.results[i].success /\ run.results[i].manual

\* ------------------------------------------------- claims on GitManager
FilePaths == {git.files[i].path : i \in DOMAIN git.files}

\* C27: Isolated staging - the staging step first unstages everything, so
\* that when the commit step starts the staged paths are exactly the paths of
\* the bucket's files, whatever was staged before.
C27_IsolatedStaging == git.pc = "commit" => git.index = FilePaths

\* the staging commands run for the path p
StagingCmds(p) ==
    {k \in DOMAIN git.cmds : git.cmds[k].cmd \in {"rm", "add"} /\ git.cmds[k].arg = p}

IsDeleted(f) == f.status = "Deleted"

\* the latest git command run, a placeholder when none was
LastCmd == IF git.cmds = <<>> THEN Cmd("none", "", TRUE) ELSE git.cmds[Len(git.cmds)]

\* C28: Deletion staging - stageFilesForBucket hands every file whose change
\* kind is Deleted to `git rm` and never to `git add`, and every other file to
\* `git add`, each at most once and exactly once when the staging completes;
\* the staging of a bucket that holds only Deleted files fails on none of its
\* files: once `git reset` has succeeded it reaches the commit step.
C28_DeletionStaging ==
    /\ \A i \in DOMAIN git.files :
          LET f == git.files[i]
          IN /\ Cardinality(StagingCmds(f.path)) <= 1
             /\ \A k \in StagingCmds(f.path) :
                   git.cmds[k].cmd = IF IsDeleted(f) THEN "rm" ELSE "add"
             /\ (git.pc \in {"commit", "push"} \/ LastCmd.cmd = "commit")
                   => Cardinality(StagingCmds(f.path)) = 1
    /\ (/\ git.files # <<>>
        /\ \A i \in DOMAIN git.files : IsDeleted(git.files[i])
        /\ \E k \in DOMAIN git.cmds : git.cmds[k] = Cmd("reset", "", TRUE))
       => (git.pc \in {"commit", "push"} \/ LastCmd.cmd = "commit")

\* a bucket whose only file is Deleted is at the commit step, its file staged
\* by `git rm`
C28_Witness ==
    /\ git.pc = "commit"
    /\ Len(git.files) = 1
    /\ IsDeleted(git.files[1])
    /\ LastCmd = Cmd("rm", git.files[1].path, TRUE)
    /\ git.index = FilePaths

\* the paths the staging step of the bucket staged: what the index holds
\* after it, nothing when the step returned at once (line 106)
StagedByStep ==
    IF git.files = <<>> THEN {}
    ELSE IF git.pc = "push" THEN git.committed ELSE git.index

\* C29: Commit manifest matches what was staged - for a bucket that reaches
\* the commit step the paths listed in the manifest of the commit message are
\* exactly the paths the preceding staging step staged, also when a `git rm`
\* failed and was ignored.
C29_ManifestMatchesStaged ==
    LastCmd.cmd = "commit" => Range(git.manifest) = StagedByStep

\* C30: Best-effort base checkout - in createBranchForBucket a failed checkout
\* of the resolved base does not fail the bucket: `git checkout -b` is still
\* run, and when it succeeds the new branch starts from the branch that was
\* checked out before the call (for a second bucket, the branch of the bucket
\* before it) and the pipeline is at the staging step.
C30_BestEffortCheckout ==
    [][(/\ git.pc = "branch"
        /\ \E k \in DOMAIN git'.cmds : git'.cmds[k] = Cmd("checkout", git.baseBranch, FALSE))
       => /\ LastCmd'.cmd = "checkout -b"
          /\ git'.pc = IF LastCmd'.ok THEN "stage" ELSE "failed"
          /\ LastCmd'.ok =>
                /\ git'.from = head
                /\ git'.branchName = LastCmd'.arg
                /\ head' = git'.branchName]_vars

\* the checkout of the default base failed for a second bucket; its branch
\* was created from the branch of the bucket before it and staging is next
C30_Witness ==
    /\ git.pc = "stage"
    /\ git.baseBranch = defaultBaseBranch
    /\ git.cmds = <<Cmd("checkout", defaultBaseBranch, FALSE),
                    Cmd("checkout -b", git.branchName, TRUE)>>
    /\ git.from = PreviousBranch
    /\ head = git.branchName

\* ------------------------------------------------- claims on the moves
\* the buckets of the store whose record the step changed
ChangedBuckets == {o \in Range(buckets) : heap'[o] # heap[o]}

\* C31: No-op moves - moveFileToBucket for a path the target bucket holds, and
\* moveFileToGitChanges for a path the pool holds or no bucket holds, return
\* false and leave the pool and every bucket as they were; a moveFileToBucket
\* that returns true changes only the pool, the bucket that held the path and
\* the target bucket.
C31_NoOpMoves ==
    [][/\ (/\ last'.op = "moveFileToBucket"
           /\ last'.path \in Range(heap[last'.target].files))
          => ~last'.returned /\ UNCHANGED storeVars
       /\ (/\ last'.op = "moveFileToGitChanges"
           /\ \/ last'.path \in Range(gitChanges)
              \/ ~isFileInBucket(heap, buckets, last'.path))
          => ~last'.returned /\ UNCHANGED storeVars
       /\ (last'.op \in {"moveFileToBucket", "moveFileToGitChanges"} /\ ~last'.returned)
          => UNCHANGED storeVars
       /\ (last'.op = "moveFileToBucket" /\ last'.returned)
          => /\ buckets' = buckets
             /\ \A o \in ChangedBuckets :
                   o = last'.target \/ last'.path \in Range(heap[o].files)
             /\ Cardinality(ChangedBuckets) <= 2
             /\ \A o \in Objs \ Range(buckets) : heap'[o] = heap[o]
             /\ heap'[last'.target].files = Append(heap[last'.target].files, last'.path)
             /\ \A q \in Paths \ {last'.path} :
                   Count(gitChanges', q) = Count(gitChanges, q)]_vars

\* a path was dropped on the bucket that holds it: nothing moved
C31_Witness ==
    /\ last.op = "moveFileToBucket"
    /\ ~last.returned
    /\ last.path \in Range(heap[last.target].files)
    /\ Len(buckets) >= 2

\* ----------------------------------------------- claims on the listing
\* C32: Ordered listing - getBucketsInOrder() returns every bucket of the
\* store exactly once, sorted by order, the buckets whose order is unset or
\* tied in their insertion order, and leaves the insertion order that
\* getBuckets() returns as it was.
C32_OrderedListing ==
    [][last'.op = "getBucketsInOrder" =>
          LET s == last'.listing
          IN /\ UNCHANGED storeVars
             /\ Len(s) = Len(buckets)
             /\ Range(s) = Range(buckets)
             /\ \A i, j \in DOMAIN s :
                   i < j =>
                      /\ OrderKey(heap[s[i]]) <= OrderKey(heap[s[j]])
                      /\ OrderKey(heap[s[i]]) = OrderKey(heap[s[j]])
                            => FindIndex(buckets, s[i]) < FindIndex(buckets, s[j])]_vars

\* a listing of three buckets that is not the insertion order and in which a
\* bucket without order follows, as inserted, the bucket of order 0
C32_Witness ==
    /\ last.op = "getBucketsInOrder"
    /\ Len(buckets) = 3
    /\ last.listing # buckets
    /\ \E i \in 1..2 :
          /\ heap[last.listing[i]].order = 0
          /\ heap[last.listing[i + 1]].order = Unset

\* ----------------------------------------------- claims on the preview
\* C33: Preview agrees with execution - for every bucket of a confirmed run
\* the base branch the plan preview showed is the base branch the run used
\* for it, buckets that depend on another bucket of the run included.
C33_PreviewAgrees ==
    \A k \in DOMAIN BranchCalls :
        k <= Len(run.preview) /\ run.preview[k] = BranchCalls[k].base

\* ------------------------------------- claims on the plan of processAll
\* C34: Snapshot and interleaved edits - commands run while processAll waits
\* for the confirmation; every bucket whose pipeline is then started is still
\* in the bucket store and holds at least one file when its branch is
\* created, so no branch is created and no commit attempted for an empty or
\* deleted bucket.
C34_PlanStillValid ==
    pc \in {"stage", "commit"} =>
        /\ CurrentBucket \in Range(buckets)
        /\ Len(heap[CurrentBucket].files) > 0

\* ------------------------------------------- claims on the branch names
\* C35: Branch name uniqueness - the name createBranchForBucket derives for a
\* bucket differs from the names of the branches it created before, in this
\* run and in earlier runs, for any bucket names and any clock values.
C35_BranchNameUnique ==
    [][git.pc = "branch" => LastCmd'.arg \notin git.branches]_vars

\* ------------------------------------------ claims on the tooling check
\* C36: Tooling check distinguishes its causes - on a GitHub repository the
\* check fails with the 'not authenticated' error when the CLI is installed
\* but not logged in, with the 'not found' error only when the CLI is absent,
\* and succeeds when both checks pass.
C36_CheckCauses ==
    run.check # NoCheck =>
        /\ (run.check.installed /\ ~run.check.loggedIn) => run.check.error = NotAuthenticated
        /\ run.check.error = NotFound => ~run.check.installed
        /\ (run.check.installed /\ run.check.loggedIn) => run.check.error = CheckOk

\* ------------------------------------------------ claims on the progress
\* line 150: `buckets.length * 4`, and the percent scale of the increments
StepsPerBucket == 4
Percent == 100

totalSteps(r) == Len(r.buckets) * StepsPerBucket

\* the progress.report calls of the run: one before each call of
\* createBranchForBucket, stageFilesForBucket, commitBucket and pushBranch
\* (lines 164, 172, 180, 189)
Reports(r) == SelectSeq(r.log, LAMBDA e : e.step # "pr")

\* the sum of the values `currentStep++` had in the first n reports
RECURSIVE StepSum(_)
StepSum(n) == IF n = 0 THEN 0 ELSE (n - 1) + StepSum(n - 1)

\* C37: Progress accounting - over a run in which every bucket of the plan
\* completes its four reported steps, the increments
\* (currentStep / totalSteps) * 100 that were reported sum to at most 100.
C37_ProgressAtMost100 ==
    (run.buckets # <<>> /\ Len(Reports(run)) = totalSteps(run))
    => StepSum(Len(Reports(run))) * Percent <= Percent * totalSteps(run)

====
